---------------------------- MODULE Spec2Model ----------------------------
(***************************************************************************)
(* Model of the asynchronous video-ingest pipeline of the backend:         *)
(*   - app/api/storage/routes.py          register_source (dispatch),      *)
(*                                        finish_upload                    *)
(*   - app/workers/video_worker.py        RQ workers on queue "uploads"    *)
(*   - app/workers/jobs/video_ingest.py   run_ingest / _run_ingest_async   *)
(*   - app/workers/jobs/video_ingest_progress.py   progress mapping        *)
(*   - app/workers/jobs/video_ingest_finalizer.py  finalize_ingest         *)
(*   - app/api/project/service.py         ProjectService.update_project    *)
(*                                                                         *)
(* The RQ queue is a Redis hash per job id (status, payload, meta) plus a  *)
(* Redis list of job ids.  Queue.enqueue with an explicit job_id writes    *)
(* the hash (overwriting one that is there) and pushes the id on the list; *)
(* a worker pops an id, loads the job, and runs run_ingest(payload).       *)
(* Job records are kept for the whole modelled horizon (RQ's result and    *)
(* failure TTLs are not modelled: the model has no clock).                 *)
(***************************************************************************)
EXTENDS Integers, Sequences, FiniteSets, TLC

(***************************************************************************)
(* Bounds of the model.                                                    *)
(***************************************************************************)
MaxRequests == 3
MaxHookCalls == 3
MaxBytes == 4
MaxFinalizeCalls == 2

(***************************************************************************)
(* Program constants (video_ingest_progress.py:8-14).                      *)
(***************************************************************************)
DOWNLOAD_PROGRESS_PARTS == 2
DOWNLOAD_PROGRESS_START == 5
DOWNLOAD_PROGRESS_MAX == 70
UPLOAD_PROGRESS_START == 71
UPLOAD_PROGRESS_DONE == 92
FINALIZE_PROGRESS_START == 93
FINALIZE_PROGRESS_DONE == 100

(***************************************************************************)
(* Input domains.  RegisterRequest (storage/models.py:11-13) declares both *)
(* fields as plain str, so the empty string is an accepted value.          *)
(***************************************************************************)
ProjectIds == {"", "p1"}
Urls == {"u1"}
NoHeaders == <<"", "", "">>
HeaderSets == {NoHeaders, <<"", "tok", "">>}
TokenHeaderSets == HeaderSets \cup {<<"", "tok", "tok2">>}

Apis == {"a1", "a2"}
Workers == {"w1", "w2"}

(***************************************************************************)
(* Settings (config/env.py:15-19) declares exactly these fields.           *)
(***************************************************************************)
SettingsFields == {"REDIS_URL", "S3_BUCKET", "AWS_REGION"}

(***************************************************************************)
(* Idempotency key (routes.py:27-31, 36-40, 50-56).                        *)
(* sha256(...).hexdigest() is modelled as an injective, deterministic map  *)
(* of its input text into the key space (a tagged copy of the text).       *)
(***************************************************************************)
Sha256Hex(text) == "sha256:" \o text

IDEMPOTENCY_HEADER_CANDIDATES == <<"Idempotency-Key", "X-Idempotency-Key", "Dupilot-Idempotency-Key">>

\* mutant: the last candidate header with a non-empty value
HeaderKeyLast(hdrs) ==
    IF \E i \in 1..Len(IDEMPOTENCY_HEADER_CANDIDATES) : hdrs[i] # ""
    THEN hdrs[CHOOSE i \in 1..Len(IDEMPOTENCY_HEADER_CANDIDATES) :
                 /\ hdrs[i] # ""
                 /\ \A j \in (i + 1)..Len(IDEMPOTENCY_HEADER_CANDIDATES) : hdrs[j] = ""]
    ELSE ""

\* routes.py:50-55: the first candidate header with a non-empty value; "" is None
HeaderKey(hdrs) ==
    IF \E i \in 1..Len(IDEMPOTENCY_HEADER_CANDIDATES) : hdrs[i] # ""
    THEN hdrs[CHOOSE i \in 1..Len(IDEMPOTENCY_HEADER_CANDIDATES) :
                 /\ hdrs[i] # ""
                 /\ \A j \in 1..(i - 1) : hdrs[j] = ""]
    ELSE ""

\* routes.py:27-31: header_key or sha256(f"{project_id}|{youtube_url}").hexdigest()
MakeIdemKey(project_id, youtube_url, header_key) ==
    IF header_key # "" THEN header_key
    ELSE Sha256Hex(project_id \o "|" \o youtube_url)

(***************************************************************************)
(* State.                                                                  *)
(***************************************************************************)
VARIABLES
    settings,   \* attribute names of the settings object (config/env.py)
    jobs,       \* Redis job hashes: job id -> [id, origin, status, payload, meta, exc_info]
    queue,      \* Redis list rq:queue:uploads: sequence of job ids
    api,        \* per API process: position inside register_source
    resp,       \* per API process: the last answer of register_source (body, status code)
    wk,         \* per worker: position inside run_ingest and its locals
    projects,   \* document store: project id -> [status, video_source, updated_at]
    pipeline,   \* document store: project id -> "upload" stage [status, progress]
    nreq,       \* number of API calls (register_source, finish_upload) so far
    nuuid,      \* number of uuid4() values drawn so far
    enqCount,   \* history: job id -> number of Queue.enqueue calls
    returned,   \* history: the (request, job_id) pairs of all responses
    fx,         \* history: job id -> number of finalize side effects performed
    run,        \* one traced execution: position, hook locals, hook calls, failed publishes
    published   \* history: the events the traced execution handed to redis publish
                \* (whether publish returned or raised)

mainVars == <<settings, jobs, queue, api, resp, wk, projects, pipeline, nreq, nuuid,
              enqCount, returned, fx>>
progVars == <<run, published>>
vars == <<mainVars, progVars>>

(***************************************************************************)
(* Initial state: empty queue, idle processes.  The project "p1" may or    *)
(* may not exist in the document store (create_project, service.py:84-103, *)
(* creates it with status upload_ready and no video source).  updated_at   *)
(* (datetime.now()) is a logical time: each update of a document stamps    *)
(* it with a later value.                                                  *)
(* config/env.py declares no INGEST_WORKDIR field, which video_ingest.py   *)
(* line 106 reads; the settings object of the source as written is         *)
(* SettingsFields, and a deployment that supplies the field is the other   *)
(* initial value.  Every step of run_ingest after line 106 is reachable    *)
(* only in the latter.                                                     *)
(***************************************************************************)
NoDoc == [status |-> "", video_source |-> "", updated_at |-> 0]
NoResp == [job_id |-> "", queue |-> "", status |-> "", stage |-> "",
           header_key |-> "", saw |-> "", enqueued |-> FALSE, http |-> 0, failed_op |-> ""]
IdleApi == [pc |-> "idle", key |-> "", project_id |-> "", youtube_url |-> "",
            hdrs |-> NoHeaders]
NoFx == [proj |-> 0, start |-> 0, pipe |-> 0]
\* history of one execution: how often it entered the download, the upload and each
\* finalize step
NoTries == [download |-> 0, upload |-> 0, update_project |-> 0, start_job |-> 0,
            pipeline |-> 0]
IdleWorker == [pc |-> "idle", key |-> "", payload |-> [project_id |-> "", source_url |-> ""],
               meta |-> <<>>, object_key |-> "", project |-> NoDoc,
               result |-> "none", raised |-> {}, exc |-> "", fx |-> NoFx,
               finalize_called |-> FALSE, matched |-> FALSE, wrote_at |-> 0,
               scratch |-> FALSE, download_returned |-> FALSE, upload_returned |-> FALSE,
               killed_at |-> "", tries |-> NoTries]

\* video_ingest.py:79-80: last_download_progress = -1, completed_parts = 0; calls counts
\* the hook calls, last_status is the status of the latest hook call, lost counts the
\* events whose redis publish raised; last_pct is the byte ratio of the latest hook call
\* as an integer percentage and last_mapped the value that call computed for
\* publication (-1: none); project_id is the payload's project (video_ingest.py:53),
\* stage the stage the execution has stored on its job record, fin_steps the number
\* of steps of finalize_ingest that have returned
IdleRun == [pc |-> "start", last_download_progress |-> -1, completed_parts |-> 0, calls |-> 0,
            last_status |-> "", lost |-> 0, last_pct |-> -1, last_mapped |-> -1,
            project_id |-> "p1", stage |-> "queued", fin_steps |-> 0]

Init ==
    /\ settings \in {SettingsFields, SettingsFields \cup {"INGEST_WORKDIR"}}
    /\ jobs = <<>>
    /\ queue = <<>>
    /\ api = [a \in Apis |-> IdleApi]
    /\ resp = [a \in Apis |-> NoResp]
    /\ wk = [w \in Workers |-> IdleWorker]
    /\ projects \in {<<>>, [p \in {"p1"} |-> [status |-> "upload_ready", video_source |-> "",
                                              updated_at |-> 0]]}
    /\ pipeline = [p \in DOMAIN projects |-> [status |-> "pending", progress |-> 0]]
    /\ nreq = 0
    /\ nuuid = 0
    /\ enqCount = <<>>
    /\ returned = {}
    /\ fx = <<>>
    /\ run = IdleRun
    /\ published = <<>>

(***************************************************************************)
(* register_source (routes.py:48-105).                                     *)
(***************************************************************************)
\* mutant: the lookup of the existing job never finds one
FetchJobNever(job_id) == FALSE

\* routes.py:60, 67: existing_job = UPLOAD_QUEUE.fetch_job(job_id); if existing_job
FetchJob(job_id) == job_id \in DOMAIN jobs

\* routes.py:77-93: the job written by UPLOAD_QUEUE.enqueue(run_ingest, job_payload, job_id, meta)
NewJob(job_id, project_id, youtube_url) ==
    [id |-> job_id, origin |-> "uploads", status |-> "queued",
     payload |-> [project_id |-> project_id, source_url |-> youtube_url],
     meta |-> [stage |-> "queued", project_id |-> project_id, source_url |-> youtube_url],
     exc_info |-> ""]

\* routes.py:69-74 and 100-105: the response body (job_id, queue, status, stage);
\* header_key, saw (the status of the job the lookup found, "" for none) and
\* enqueued record what the call did; http is the status code (routes.py:45)
Response(job, header_key, saw, enqueued) ==
    [job_id |-> job.id, queue |-> job.origin, status |-> job.status,
     stage |-> job.meta.stage, header_key |-> header_key, saw |-> saw, enqueued |-> enqueued,
     http |-> 202, failed_op |-> ""]

Request(project_id, youtube_url, hdrs, job_id) ==
    [project_id |-> project_id, youtube_url |-> youtube_url, hdrs |-> hdrs, job_id |-> job_id]

\* routes.py:67-74: the existing job is returned as it is
ReturnExisting(a, job_id, project_id, youtube_url, hdrs) ==
    /\ resp' = [resp EXCEPT ![a] = Response(jobs[job_id], HeaderKey(hdrs), jobs[job_id].status, FALSE)]
    /\ returned' = returned \cup {Request(project_id, youtube_url, hdrs, jobs[job_id].id)}
    /\ UNCHANGED <<jobs, queue, enqCount, fx>>

\* routes.py:76-105: Queue.enqueue writes the job hash and pushes the id on the list
Enqueue(a, job_id, project_id, youtube_url, hdrs, saw) ==
    LET job == NewJob(job_id, project_id, youtube_url) IN
    /\ jobs' = (job_id :> job) @@ jobs
    /\ queue' = Append(queue, job_id)
    /\ enqCount' = (job_id :> (IF job_id \in DOMAIN enqCount THEN enqCount[job_id] + 1 ELSE 1)) @@ enqCount
    /\ fx' = IF job_id \in DOMAIN fx THEN fx ELSE (job_id :> NoFx) @@ fx
    /\ resp' = [resp EXCEPT ![a] = Response(job, HeaderKey(hdrs), saw, TRUE)]
    /\ returned' = returned \cup {Request(project_id, youtube_url, hdrs, job.id)}

\* routes.py:48-74: the key, the lookup, and the early return; otherwise the
\* process goes on to the enqueue of lines 76-98
RegisterLookup(a, project_id, youtube_url, hdrs) ==
    LET job_id == MakeIdemKey(project_id, youtube_url, HeaderKey(hdrs)) IN
    /\ api[a].pc = "idle"
    /\ nreq < MaxRequests
    /\ nreq' = nreq + 1
    /\ IF FetchJob(job_id)
       THEN /\ ReturnExisting(a, job_id, project_id, youtube_url, hdrs)
            /\ UNCHANGED api
       ELSE /\ api' = [api EXCEPT ![a] = [pc |-> "enqueue", key |-> job_id,
                                          project_id |-> project_id,
                                          youtube_url |-> youtube_url, hdrs |-> hdrs]]
            /\ UNCHANGED <<jobs, queue, enqCount, fx, resp, returned>>
    /\ UNCHANGED <<progVars, settings, wk, projects, pipeline, nuuid>>

\* routes.py:76-105
RegisterEnqueue(a) ==
    /\ api[a].pc = "enqueue"
    /\ Enqueue(a, api[a].key, api[a].project_id, api[a].youtube_url, api[a].hdrs, "")
    /\ api' = [api EXCEPT ![a] = IdleApi]
    /\ UNCHANGED <<progVars, settings, wk, projects, pipeline, nreq, nuuid>>

\* routes.py:48-105 run by one API process without interruption: the handler
\* body has no await between fetch_job and enqueue, so within one event loop
\* it is one step
RegisterSource(a, project_id, youtube_url, hdrs) ==
    LET job_id == MakeIdemKey(project_id, youtube_url, HeaderKey(hdrs)) IN
    /\ api[a].pc = "idle"
    /\ nreq < MaxRequests
    /\ nreq' = nreq + 1
    /\ IF FetchJob(job_id)
       THEN ReturnExisting(a, job_id, project_id, youtube_url, hdrs)
       ELSE Enqueue(a, job_id, project_id, youtube_url, hdrs, "")
    /\ UNCHANGED <<progVars, settings, api, wk, projects, pipeline, nuuid>>

\* The broker operations of register_source that can raise RedisError: fetch_job
\* (routes.py:60), existing_job.refresh() / get_status() (routes.py:68-72) and
\* enqueue (routes.py:83).
BrokerOps == {"fetch_job", "refresh", "enqueue"}

\* routes.py:59-65 and 82-98: RedisError of fetch_job and of enqueue is caught and
\* raised as HTTPException 503; routes.py:67-74: refresh() and get_status() stand
\* outside any try, their RedisError leaves the handler and the framework answers 500
StatusOnRedisError(op) == IF op \in {"fetch_job", "enqueue"} THEN 503 ELSE 500

\* the response of a call that ended with an error
ErrorResponse(header_key, saw, op) ==
    [NoResp EXCEPT !.header_key = header_key, !.saw = saw,
                   !.http = StatusOnRedisError(op), !.failed_op = op]

\* routes.py:48-105 with the broker becoming unreachable at operation op: the
\* operations before op have returned, op raises RedisError (an enqueue that raises
\* has written nothing)
RegisterSourceBrokerDown(a, project_id, youtube_url, hdrs, op) ==
    LET job_id == MakeIdemKey(project_id, youtube_url, HeaderKey(hdrs)) IN
    /\ api[a].pc = "idle"
    /\ nreq < MaxRequests
    /\ nreq' = nreq + 1
    /\ op = "refresh" => FetchJob(job_id)
    /\ op = "enqueue" => ~FetchJob(job_id)
    /\ resp' = [resp EXCEPT ![a] = ErrorResponse(HeaderKey(hdrs),
                     IF op # "fetch_job" /\ FetchJob(job_id) THEN jobs[job_id].status ELSE "", op)]
    /\ UNCHANGED <<jobs, queue, enqCount, fx, returned>>
    /\ UNCHANGED <<progVars, settings, api, wk, projects, pipeline, nuuid>>

(***************************************************************************)
(* Job meta updates (video_ingest_progress.py:24-49).                      *)
(***************************************************************************)
Max(x, y) == IF x >= y THEN x ELSE y
Min(x, y) == IF x <= y THEN x ELSE y

\* video_ingest_progress.py:24-25
clamp(value, lower, upper) == Max(lower, Min(upper, value))

\* video_ingest_progress.py:40-48: job.meta.update({"stage": stage, **meta, "progress": clamp(progress)})
UpdatedMeta(meta, stage, progress, extra) ==
\* on the worker's job object; job.save_meta() then writes the whole dict to the job hash
    (([progress |-> clamp(progress, 0, 100)] @@ extra) @@ [stage |-> stage]) @@ meta

\* utils/s3.py:5-8: uuid4() is a fresh value on every call
BuildObjectKey(project_id, n) ==
    "projects/" \o project_id \o "/inputs/videos/" \o ToString(n) \o ".mp4"

(***************************************************************************)
(* The worker (video_worker.py:6-10) and run_ingest (video_ingest.py).     *)
(***************************************************************************)
\* video_worker.py:10: Worker.work pops the next job id of "uploads", loads the
\* job, marks it started and calls run_ingest(payload)
Dequeue(w) ==
    /\ wk[w].pc = "idle"
    /\ queue # <<>>
    /\ LET k == Head(queue) IN
       /\ wk' = [wk EXCEPT ![w] = [IdleWorker EXCEPT !.pc = "start", !.key = k,
                                      !.payload = jobs[k].payload, !.meta = jobs[k].meta]]
       /\ jobs' = [jobs EXCEPT ![k].status = "started"]
    /\ queue' = Tail(queue)
    /\ UNCHANGED <<progVars, settings, api, resp, projects, pipeline, nreq, nuuid, enqCount, returned, fx>>

\* video_ingest.py:180-181: an exception of _run_ingest_async leaves run_ingest;
\* the RQ worker marks the job failed and stores the exception text on the job.
\* No line of run_ingest writes the job meta on this path.
\* An exception that passes the with block of line 109 removes the scratch directory
\* (TemporaryDirectory.__exit__).
RaiseOut(w, step, exc) ==
    /\ wk' = [wk EXCEPT ![w].pc = "idle", ![w].result = "failed",
                         ![w].raised = @ \cup {step}, ![w].exc = exc,
                         ![w].scratch = FALSE]
    /\ jobs' = [jobs EXCEPT ![wk[w].key].status = "failed", ![wk[w].key].exc_info = exc]

\* video_ingest.py:52-77: payload check, then stage downloading with progress 0
\* (settings.S3_BUCKET has a non-empty default, env.py:17)
Start(w) ==
    /\ wk[w].pc = "start"
    /\ IF wk[w].payload.source_url = "" \/ wk[w].payload.project_id = ""
       THEN RaiseOut(w, "validate", "HTTPException400")
       ELSE LET m == UpdatedMeta(wk[w].meta, "downloading", 0, <<>>) IN
            /\ jobs' = [jobs EXCEPT ![wk[w].key].meta = m]
            /\ wk' = [wk EXCEPT ![w].pc = "download", ![w].meta = m]
    /\ UNCHANGED <<progVars, settings, queue, api, resp, projects, pipeline, nreq, nuuid, enqCount, returned, fx>>

\* video_ingest.py:106: settings.INGEST_WORKDIR on a settings object without
\* that attribute raises AttributeError
WorkdirMissing(w) ==
    /\ wk[w].pc = "download"
    /\ "INGEST_WORKDIR" \notin settings
    /\ RaiseOut(w, "workdir", "AttributeError")
    /\ UNCHANGED <<progVars, settings, queue, api, resp, projects, pipeline, nreq, nuuid, enqCount, returned, fx>>

\* video_ingest.py:106-110: the scratch root is made and the per-execution scratch
\* directory is created under it (tempfile.TemporaryDirectory); the download starts
MakeScratch(w) ==
    /\ wk[w].pc = "download"
    /\ "INGEST_WORKDIR" \in settings
    /\ ~wk[w].scratch
    /\ wk[w].tries.download = 0
    /\ wk' = [wk EXCEPT ![w].scratch = TRUE, ![w].tries.download = @ + 1]
    /\ UNCHANGED <<progVars, settings, jobs, queue, api, resp, projects, pipeline, nreq, nuuid, enqCount, returned, fx>>

\* mutant: a failed download is started again
OnDownloadErrorRetry(w) ==
    /\ wk' = [wk EXCEPT ![w].tries.download = @ + 1]
    /\ UNCHANGED jobs

\* video_ingest.py:114-120: the download error is raised as HTTPException 400
OnDownloadError(w) == RaiseOut(w, "download", "HTTPException400")

\* video_ingest.py:109-120: the download raises
DownloadRaise(w) ==
    /\ wk[w].pc = "download"
    /\ wk[w].scratch
    /\ OnDownloadError(w)
    /\ UNCHANGED <<progVars, settings, queue, api, resp, projects, pipeline, nreq, nuuid, enqCount, returned, fx>>

\* video_ingest.py:106-133: the download returns; object key; stage uploading at 71
DownloadOk(w) ==
    /\ wk[w].pc = "download"
    /\ wk[w].scratch
    /\ LET m == UpdatedMeta(wk[w].meta, "uploading", UPLOAD_PROGRESS_START, <<>>) IN
       /\ jobs' = [jobs EXCEPT ![wk[w].key].meta = m]
       /\ wk' = [wk EXCEPT ![w].pc = "upload", ![w].meta = m,
                            ![w].object_key = BuildObjectKey(wk[w].payload.project_id, nuuid + 1),
                            ![w].download_returned = TRUE, ![w].tries.upload = @ + 1]
    /\ nuuid' = nuuid + 1
    /\ UNCHANGED <<progVars, settings, queue, api, resp, projects, pipeline, nreq, enqCount, returned, fx>>

\* mutant: the upload error is swallowed and the execution goes on to finalize
OnUploadErrorSwallowed(w) ==
    LET m == UpdatedMeta(wk[w].meta, "finalizing", FINALIZE_PROGRESS_START, <<>>) IN
    /\ jobs' = [jobs EXCEPT ![wk[w].key].meta = m]
    /\ wk' = [wk EXCEPT ![w].pc = "fin_update", ![w].meta = m, ![w].raised = @ \cup {"upload"}]

\* video_ingest.py:135-141: the upload error is re-raised as HTTPException 502
OnUploadError(w) == RaiseOut(w, "upload", "HTTPException502")

\* video_ingest.py:135-141: s3.upload_file raises
UploadRaise(w) ==
    /\ wk[w].pc = "upload"
    /\ OnUploadError(w)
    /\ UNCHANGED <<progVars, settings, queue, api, resp, projects, pipeline, nreq, nuuid, enqCount, returned, fx>>

\* video_ingest.py:135-162: the upload returns and the with block ends, which removes
\* the scratch directory; stage finalizing at 93
UploadOk(w) ==
    /\ wk[w].pc = "upload"
    /\ LET m == UpdatedMeta(wk[w].meta, "finalizing", FINALIZE_PROGRESS_START, <<>>) IN
       /\ jobs' = [jobs EXCEPT ![wk[w].key].meta = m]
       /\ wk' = [wk EXCEPT ![w].pc = "fin_update", ![w].meta = m, ![w].scratch = FALSE,
                            ![w].upload_returned = TRUE]
    /\ UNCHANGED <<progVars, settings, queue, api, resp, projects, pipeline, nreq, nuuid, enqCount, returned, fx>>

(***************************************************************************)
(* finalize_ingest (video_ingest_finalizer.py:13-30) and                   *)
(* ProjectService.update_project (service.py:105-127).                     *)
(***************************************************************************)
Bump(f, k, field) == [f EXCEPT ![k][field] = @ + 1]

\* mutant: the update sets the status and leaves video_source as it was
UpdateDataStatusOnly(doc, object_key) ==
    [status |-> "upload_done", video_source |-> doc.video_source, updated_at |-> doc.updated_at + 1]

\* service.py:105-108 with video_ingest_finalizer.py:14-18 and routes.py:146-150:
\* the $set document {status: "upload_done", video_source: object_key, updated_at: now}
UpdateData(doc, object_key) ==
    [status |-> "upload_done", video_source |-> object_key, updated_at |-> doc.updated_at + 1]

\* mutant: the filter also asks for a project that is not yet upload_done
MatchesNotDone(doc) == doc.status # "upload_done"

\* service.py:110-113: the filter {"_id": ObjectId(project_id)} matches the document
\* of that id, whatever its fields
Matches(doc) == TRUE

\* service.py:105-113: update_one({"_id": project_id}, {"$set": {status, video_source, updated_at}})
FinUpdateOne(w) ==
    LET p == wk[w].payload.project_id IN
    /\ wk[w].pc = "fin_update"
    /\ IF p \in DOMAIN projects /\ Matches(projects[p])
       THEN /\ projects' = [projects EXCEPT ![p] = UpdateData(projects[p], wk[w].object_key)]
            /\ fx' = Bump(fx, wk[w].key, "proj")
            /\ wk' = [wk EXCEPT ![w].pc = "fin_find", ![w].finalize_called = TRUE,
                                 ![w].fx.proj = @ + 1, ![w].matched = TRUE,
                                 ![w].wrote_at = projects[p].updated_at + 1,
                                 ![w].tries.update_project = @ + 1]
       ELSE /\ wk' = [wk EXCEPT ![w].pc = "fin_find", ![w].finalize_called = TRUE,
                                 ![w].matched = FALSE,
                                 ![w].tries.update_project = @ + 1]
            /\ UNCHANGED <<projects, fx>>
    /\ UNCHANGED <<progVars, settings, jobs, queue, api, resp, pipeline, nreq, nuuid, enqCount, returned>>

\* mutant: the missing project is not reported
NotFoundIgnored(found, matched) == FALSE

\* service.py:117: if not doc or result.matched_count == 0
NotFound(found, matched) == ~found \/ ~matched

\* service.py:115-127: find_one; no document, or matched_count == 0, raises 404
FinFindOne(w) ==
    LET p == wk[w].payload.project_id
        found == p \in DOMAIN projects
        doc == IF found THEN projects[p] ELSE NoDoc
    IN
    /\ wk[w].pc = "fin_find"
    /\ IF NotFound(found, wk[w].matched)
       THEN RaiseOut(w, "update_project", "HTTPException404")
       ELSE /\ wk' = [wk EXCEPT ![w].pc = "fin_start", ![w].project = doc,
                                 ![w].tries.start_job = @ + 1]
            /\ UNCHANGED jobs
    /\ UNCHANGED <<progVars, settings, queue, api, resp, projects, pipeline, nreq, nuuid, enqCount, returned, fx>>

\* video_ingest_finalizer.py:21: start_job(project, worker_db) returns
FinStartJobOk(w) ==
    /\ wk[w].pc = "fin_start"
    /\ fx' = Bump(fx, wk[w].key, "start")
    /\ wk' = [wk EXCEPT ![w].pc = "fin_pipe", ![w].fx.start = @ + 1,
                         ![w].tries.pipeline = @ + 1]
    /\ UNCHANGED <<progVars, settings, jobs, queue, api, resp, projects, pipeline, nreq, nuuid, enqCount, returned>>

\* video_ingest_finalizer.py:21: start_job raises
FinStartJobRaise(w) ==
    /\ wk[w].pc = "fin_start"
    /\ RaiseOut(w, "start_job", "StartJobError")
    /\ UNCHANGED <<progVars, settings, queue, api, resp, projects, pipeline, nreq, nuuid, enqCount, returned, fx>>

\* video_ingest_finalizer.py:22-30: update_pipeline_stage("upload", COMPLETED, 100) returns
FinPipelineOk(w) ==
    LET p == wk[w].payload.project_id IN
    /\ wk[w].pc = "fin_pipe"
    /\ pipeline' = (p :> [status |-> "completed", progress |-> 100]) @@ pipeline
    /\ fx' = Bump(fx, wk[w].key, "pipe")
    /\ wk' = [wk EXCEPT ![w].pc = "mark_done", ![w].fx.pipe = @ + 1]
    /\ UNCHANGED <<progVars, settings, jobs, queue, api, resp, projects, nreq, nuuid, enqCount, returned>>

\* video_ingest_finalizer.py:22-30: update_pipeline_stage raises
FinPipelineRaise(w) ==
    /\ wk[w].pc = "fin_pipe"
    /\ RaiseOut(w, "pipeline", "PipelineError")
    /\ UNCHANGED <<progVars, settings, queue, api, resp, projects, pipeline, nreq, nuuid, enqCount, returned, fx>>

\* video_ingest.py:166-177, 180-181: stage done at 100 with the object key; run_ingest
\* returns and the RQ worker marks the job finished
MarkDone(w) ==
    /\ wk[w].pc = "mark_done"
    /\ LET m == UpdatedMeta(wk[w].meta, "done", FINALIZE_PROGRESS_DONE,
                             [s3_key |-> wk[w].object_key]) IN
       /\ jobs' = [jobs EXCEPT ![wk[w].key].meta = m, ![wk[w].key].status = "finished"]
       /\ wk' = [wk EXCEPT ![w].pc = "idle", ![w].meta = m, ![w].result = "ok"]
    /\ UNCHANGED <<progVars, settings, queue, api, resp, projects, pipeline, nreq, nuuid, enqCount, returned, fx>>

(***************************************************************************)
(* finish_upload (routes.py:140-186): the endpoint a client calls after a  *)
(* direct file upload.  It writes the same project fields and the same     *)
(* pipeline stage as finalize_ingest, with the object key the client       *)
(* sends.  The handler is one step here; start_job and                     *)
(* update_pipeline_stage return.                                           *)
(***************************************************************************)
\* routes.py:114-116: the object key prepare_file_upload hands to the client
UploadedObjectKey(project_id) == "projects/" \o project_id \o "/inputs/videos/file.mp4"

FinishUpload(project_id, object_key) ==
    /\ nreq < MaxRequests
    /\ nreq' = nreq + 1
    /\ IF project_id \in DOMAIN projects /\ Matches(projects[project_id])
       THEN /\ projects' = [projects EXCEPT ![project_id] = UpdateData(@, object_key)]
            /\ pipeline' = (project_id :> [status |-> "completed", progress |-> 100]) @@ pipeline
       ELSE UNCHANGED <<projects, pipeline>>
    /\ UNCHANGED <<progVars, settings, jobs, queue, api, resp, wk, nuuid, enqCount, returned, fx>>

\* The work horse that runs run_ingest is killed from outside (SIGKILL: RQ's
\* kill-horse command, the OOM killer, a host shutdown) at any point of the
\* execution.  No Python code of the execution runs after it, so the with block of
\* video_ingest.py:109 does not get to remove the scratch directory; the RQ worker
\* finds the horse dead and marks the job failed.
Kill(w) ==
    /\ wk[w].pc # "idle"
    /\ wk' = [wk EXCEPT ![w].pc = "idle", ![w].result = "killed", ![w].killed_at = wk[w].pc]
    /\ jobs' = [jobs EXCEPT ![wk[w].key].status = "failed",
                            ![wk[w].key].exc_info = "WorkHorseKilled"]
    /\ UNCHANGED <<progVars, settings, queue, api, resp, projects, pipeline, nreq, nuuid, enqCount, returned, fx>>

WorkerStep(w) ==
    \/ Dequeue(w)
    \/ Start(w)
    \/ WorkdirMissing(w)
    \/ MakeScratch(w)
    \/ DownloadRaise(w)
    \/ DownloadOk(w)
    \/ UploadRaise(w)
    \/ UploadOk(w)
    \/ FinUpdateOne(w)
    \/ FinFindOne(w)
    \/ FinStartJobOk(w)
    \/ FinStartJobRaise(w)
    \/ FinPipelineOk(w)
    \/ FinPipelineRaise(w)
    \/ MarkDone(w)

(***************************************************************************)
(* Spec: API processes and workers interleave step by step (several API    *)
(* processes and several workers on one Redis); requests carry no          *)
(* idempotency header.                                                     *)
(* SpecSeq: register_source calls are served one after the other, with or  *)
(* without an idempotency header; the broker may become unreachable at any *)
(* broker operation of a call.                                             *)
(* In both, a client may call finish_upload for project "p1".              *)
(***************************************************************************)
Next ==
    \/ \E a \in Apis, p \in ProjectIds, u \in Urls : RegisterLookup(a, p, u, NoHeaders)
    \/ \E a \in Apis : RegisterEnqueue(a)
    \/ FinishUpload("p1", UploadedObjectKey("p1"))
    \/ \E w \in Workers : WorkerStep(w)

Spec == Init /\ [][Next]_vars

NextSeq ==
    \/ \E p \in ProjectIds, u \in Urls, h \in HeaderSets : RegisterSource("a1", p, u, h)
    \/ \E p \in ProjectIds, u \in Urls, h \in HeaderSets, op \in BrokerOps :
          RegisterSourceBrokerDown("a1", p, u, h, op)
    \/ FinishUpload("p1", UploadedObjectKey("p1"))
    \/ \E w \in Workers : WorkerStep(w)

SpecSeq == Init /\ [][NextSeq]_vars

(***************************************************************************)
(* SpecToken: register_source calls served one after the other, with one,  *)
(* two or no idempotency headers, and one worker.                          *)
(***************************************************************************)
NextToken ==
    \/ \E p \in ProjectIds, u \in Urls, h \in TokenHeaderSets : RegisterSource("a1", p, u, h)
    \/ WorkerStep("w1")

SpecToken == Init /\ [][NextToken]_vars

(***************************************************************************)
(* SpecKill: headerless register_source calls served one after the other,  *)
(* two workers, and executions that may be killed from outside at any      *)
(* point.                                                                  *)
(***************************************************************************)
NextKill ==
    \/ \E p \in ProjectIds, u \in Urls : RegisterSource("a1", p, u, NoHeaders)
    \/ \E w \in Workers : WorkerStep(w)
    \/ \E w \in Workers : Kill(w)

SpecKill == Init /\ [][NextKill]_vars

(***************************************************************************)
(* SpecLive: the runs in which every collaborator succeeds.  Requests name *)
(* the existing project "p1" and a source URL; the download, the upload,   *)
(* update_project, start_job and update_pipeline_stage return.  What is    *)
(* left of the failure steps is the one the code takes by itself: the read *)
(* of settings.INGEST_WORKDIR.  A worker that can take a step eventually   *)
(* takes one (the RQ worker loop, video_worker.py:10).                     *)
(***************************************************************************)
InitLive ==
    /\ Init
    /\ projects # <<>>

LiveStep(w) ==
    \/ Dequeue(w)
    \/ Start(w)
    \/ WorkdirMissing(w)
    \/ MakeScratch(w)
    \/ DownloadOk(w)
    \/ UploadOk(w)
    \/ FinUpdateOne(w)
    \/ FinFindOne(w)
    \/ FinStartJobOk(w)
    \/ FinPipelineOk(w)
    \/ MarkDone(w)

NextLive ==
    \/ \E u \in Urls, h \in HeaderSets : RegisterSource("a1", "p1", u, h)
    \/ \E w \in Workers : LiveStep(w)

SpecLive == InitLive /\ [][NextLive]_vars /\ \A w \in Workers : WF_vars(LiveStep(w))

(***************************************************************************)
(* SpecFinalize: finalize_ingest called directly, more than once with the  *)
(* same (project_id, object_key).  Two callers stand at the call of        *)
(* video_ingest.py:164 for two jobs of project "p1" (one keyed by the      *)
(* derived key, one by a header token), each with the object key of its    *)
(* own upload; a caller whose call returned may call again with the same   *)
(* arguments.  start_job and update_pipeline_stage return.                 *)
(***************************************************************************)
FinalizingJob(job_id, project_id, youtube_url) ==
    [NewJob(job_id, project_id, youtube_url) EXCEPT
        !.status = "started",
        !.meta = UpdatedMeta(@, "finalizing", FINALIZE_PROGRESS_START, <<>>)]

FinalizeCaller(job, n) ==
    [IdleWorker EXCEPT !.pc = "fin_update", !.key = job.id, !.payload = job.payload,
                       !.meta = job.meta,
                       !.object_key = BuildObjectKey(job.payload.project_id, n),
                       !.download_returned = TRUE, !.upload_returned = TRUE,
                       !.tries = [NoTries EXCEPT !.download = 1, !.upload = 1]]

InitFinalize ==
    LET k1 == MakeIdemKey("p1", "u1", "")
        k2 == MakeIdemKey("p1", "u1", "tok")
        j1 == FinalizingJob(k1, "p1", "u1")
        j2 == FinalizingJob(k2, "p1", "u1")
    IN
    /\ settings = SettingsFields \cup {"INGEST_WORKDIR"}
    /\ jobs = (k1 :> j1) @@ (k2 :> j2)
    /\ queue = <<>>
    /\ api = [a \in Apis |-> IdleApi]
    /\ resp = [a \in Apis |-> NoResp]
    /\ wk = ("w1" :> FinalizeCaller(j1, 1)) @@ ("w2" :> FinalizeCaller(j2, 2))
    /\ projects \in {<<>>, [p \in {"p1"} |-> [status |-> "upload_ready", video_source |-> "",
                                              updated_at |-> 0]]}
    /\ pipeline = [p \in DOMAIN projects |-> [status |-> "pending", progress |-> 0]]
    /\ nreq = 2
    /\ nuuid = 2
    /\ enqCount = (k1 :> 1) @@ (k2 :> 1)
    /\ returned = {}
    /\ fx = (k1 :> NoFx) @@ (k2 :> NoFx)
    /\ run = IdleRun
    /\ published = <<>>

\* finalize_ingest(project_id, object_key) is called again after it returned
FinalizeAgain(w) ==
    /\ wk[w].pc = "mark_done"
    /\ wk[w].fx.proj < MaxFinalizeCalls
    /\ wk' = [wk EXCEPT ![w].pc = "fin_update"]
    /\ UNCHANGED <<progVars, settings, jobs, queue, api, resp, projects, pipeline, nreq, nuuid, enqCount, returned, fx>>

NextFinalize ==
    \/ \E w \in Workers : FinUpdateOne(w)
    \/ \E w \in Workers : FinFindOne(w)
    \/ \E w \in Workers : FinStartJobOk(w)
    \/ \E w \in Workers : FinPipelineOk(w)
    \/ \E w \in Workers : FinalizeAgain(w)

SpecFinalize == InitFinalize /\ [][NextFinalize]_vars

(***************************************************************************)
(* Progress mapping (video_ingest_progress.py:52-89).                      *)
(* _download_part_span() is the float (70 - 5) / max(PARTS, 1); the model  *)
(* keeps it as the fraction SpanNum / SpanDen and int() of a non-negative  *)
(* float as integer division.                                              *)
(***************************************************************************)
SpanNum == DOWNLOAD_PROGRESS_MAX - DOWNLOAD_PROGRESS_START
SpanDen == Max(DOWNLOAD_PROGRESS_PARTS, 1)

\* video_ingest_progress.py:57-64: clamp(int(START + completed_parts * span + raw_pct / 100 * span))
map_download_progress(raw_pct, completed_parts) ==
    clamp((DOWNLOAD_PROGRESS_START * 100 * SpanDen
             + completed_parts * SpanNum * 100
             + raw_pct * SpanNum) \div (100 * SpanDen), 0, 100)

\* mutant: the number of completed parts is not capped at DOWNLOAD_PROGRESS_PARTS
DownloadProgressUncapped(completed_parts) ==
    clamp((DOWNLOAD_PROGRESS_START * SpanDen + completed_parts * SpanNum) \div SpanDen, 0, 100)

\* video_ingest_progress.py:67-72
download_progress_for_completed_parts(completed_parts) ==
    clamp((DOWNLOAD_PROGRESS_START * SpanDen
             + Min(completed_parts, DOWNLOAD_PROGRESS_PARTS) * SpanNum) \div SpanDen, 0, 100)

\* A yt-dlp status dict: a function whose domain is the keys that are present.
HookStatuses ==
    {[status |-> s] : s \in {"downloading", "finished", "error"}}
    \cup {[status |-> s, downloaded_bytes |-> d, total_bytes |-> t] :
            s \in {"downloading", "finished"}, d \in 0..(MaxBytes + 1), t \in {0, MaxBytes}}
    \cup {[status |-> "downloading", downloaded_bytes |-> d, total_bytes_estimate |-> MaxBytes] :
            d \in 0..(MaxBytes + 1)}

\* video_ingest_progress.py:79: status.get("total_bytes") or status.get("total_bytes_estimate"); 0 is None
TotalOf(status) ==
    IF "total_bytes" \in DOMAIN status /\ status.total_bytes # 0 THEN status.total_bytes
    ELSE IF "total_bytes_estimate" \in DOMAIN status THEN status.total_bytes_estimate
    ELSE 0

NonePayload == [none |-> TRUE]

\* video_ingest_progress.py:83: int(downloaded / total * 100), where both are known
RawPct(status) ==
    IF TotalOf(status) # 0 /\ "downloaded_bytes" \in DOMAIN status
    THEN (status.downloaded_bytes * 100) \div TotalOf(status)
    ELSE -1

\* video_ingest_progress.py:75-89 (the eta key is carried along unchanged and left out)
make_progress_payload(status) ==
    IF status.status \notin {"downloading", "finished"} THEN NonePayload
    ELSE LET total == TotalOf(status)
             base == [status |-> status.status]
             withPct == IF total # 0 /\ "downloaded_bytes" \in DOMAIN status
                        THEN [progress |-> clamp((status.downloaded_bytes * 100) \div total,
                                                 0, DOWNLOAD_PROGRESS_MAX)] @@ base
                        ELSE base
         IN IF status.status = "finished" THEN [progress |-> 100] @@ withPct ELSE withPct

\* video_ingest_progress.py:17-18
progress_channel(project_id) == "uploads:" \o project_id

\* video_ingest_progress.py:28-37: the event emit_progress hands to redis publish
Event(stage, progress) ==
    [channel |-> progress_channel(run.project_id), stage |-> stage,
     progress |-> clamp(progress, 0, 100)]

\* mutant: the event is handed over ahead of the events produced before it
EmitOutOfOrder(stage, progress) == <<Event(stage, progress)>> \o published

\* video_ingest_progress.py:28-37: emit_progress clamps the progress and hands the
\* event to redis publish on the channel of the project
Emit(stage, progress) == Append(published, Event(stage, progress))

\* mutant: the RedisError of publish leaves emit_progress and ends the execution
OnPublishErrorRaised(r) == run' = [run EXCEPT !.pc = "failed", !.lost = @ + 1]

\* video_ingest_progress.py:36-37: except RedisError: pass; the execution goes on as
\* it does after a publish that returned
OnPublishError(r) == run' = [r EXCEPT !.lost = @ + 1]

\* video_ingest_progress.py:28-37: emit_progress; redis publish returns or raises
\* RedisError (r is the execution's state after the call)
Publish(stage, progress, r) ==
    /\ published' = Emit(stage, progress)
    /\ \/ run' = r
       \/ OnPublishError(r)

(***************************************************************************)
(* One execution of _run_ingest_async traced event by event                *)
(* (video_ingest.py:66-177), with the download hook called by yt-dlp.      *)
(***************************************************************************)
\* video_ingest.py:69-77: the download start event at progress 5
TraceStart ==
    /\ run.pc = "start"
    /\ Publish("downloading", 5, [run EXCEPT !.pc = "download", !.stage = "downloading"])
    /\ UNCHANGED mainVars

\* video_ingest.py:82-103: _progress_hook(status)
TraceHook(status) ==
    /\ run.pc = "download"
    /\ run.calls < MaxHookCalls
    /\ LET payload == make_progress_payload(status)
           parts == IF status.status = "finished"
                    THEN Min(run.completed_parts + 1, DOWNLOAD_PROGRESS_PARTS)
                    ELSE run.completed_parts
           skip == \/ payload = NonePayload
                   \/ status.status # "finished" /\ "progress" \notin DOMAIN payload
           mapped == IF status.status = "finished"
                     THEN download_progress_for_completed_parts(parts)
                     ELSE map_download_progress(payload.progress, parts)
           r == [run EXCEPT !.calls = @ + 1, !.last_status = status.status,
                            !.last_pct = RawPct(status),
                            !.last_mapped = IF skip THEN -1 ELSE mapped]
       IN IF skip
          THEN /\ run' = r
               /\ UNCHANGED published
          ELSE IF mapped = run.last_download_progress
          THEN /\ run' = [r EXCEPT !.completed_parts = parts]
               /\ UNCHANGED published
          ELSE Publish("downloading", mapped,
                       [r EXCEPT !.completed_parts = parts, !.last_download_progress = mapped])
    /\ UNCHANGED mainVars

\* video_ingest.py:122-133: the download has returned; upload start event at 71
TraceUploadStart ==
    /\ run.pc = "download"
    /\ Publish("uploading", UPLOAD_PROGRESS_START,
               [run EXCEPT !.pc = "upload", !.stage = "uploading"])
    /\ UNCHANGED mainVars

\* video_ingest.py:135-151: the upload has returned; upload done event at 92
TraceUploadDone ==
    /\ run.pc = "upload"
    /\ Publish("uploading", UPLOAD_PROGRESS_DONE, [run EXCEPT !.pc = "finalize"])
    /\ UNCHANGED mainVars

\* video_ingest.py:153-162: finalize start event at 93
TraceFinalizeStart ==
    /\ run.pc = "finalize"
    /\ Publish("finalizing", FINALIZE_PROGRESS_START,
               [run EXCEPT !.pc = "finalizing", !.stage = "finalizing"])
    /\ UNCHANGED mainVars

\* video_ingest.py:164, video_ingest_finalizer.py:19-30: the next of update_project,
\* start_job, update_pipeline_stage returns
TraceFinalizeStep ==
    /\ run.pc = "finalizing"
    /\ run.fin_steps < 3
    /\ run' = [run EXCEPT !.fin_steps = @ + 1]
    /\ UNCHANGED published
    /\ UNCHANGED mainVars

\* video_ingest.py:164-177: finalize_ingest has returned; stage done is stored, then
\* the done event at 100 is published
TraceDone ==
    /\ run.pc = "finalizing"
    /\ run.fin_steps = 3
    /\ Publish("done", FINALIZE_PROGRESS_DONE, [run EXCEPT !.pc = "done", !.stage = "done"])
    /\ UNCHANGED mainVars

InitProgress ==
    /\ Init
    /\ "INGEST_WORKDIR" \in settings
    /\ projects # <<>>

NextProgress ==
    \/ TraceStart
    \/ \E status \in HookStatuses : TraceHook(status)
    \/ TraceUploadStart
    \/ TraceUploadDone
    \/ TraceFinalizeStart
    \/ TraceFinalizeStep
    \/ TraceDone

SpecProgress == InitProgress /\ [][NextProgress]_vars

(***************************************************************************)
(* Properties of dispatch.                                                 *)
(***************************************************************************)
DerivedKey(project_id, youtube_url) == Sha256Hex(project_id \o "|" \o youtube_url)

\* C1 (SpecSeq): every register_source call without idempotency header returns
\* the job id derived from project_id + "|" + youtube_url, so all such calls for
\* one (project_id, youtube_url) return the same id, and Queue.enqueue has been
\* called at most once for that id.
C1_IdempotentDispatch ==
    \A r \in returned :
        HeaderKey(r.hdrs) = "" =>
            /\ r.job_id = DerivedKey(r.project_id, r.youtube_url)
            /\ \A q \in returned :
                   (HeaderKey(q.hdrs) = "" /\ q.project_id = r.project_id
                        /\ q.youtube_url = r.youtube_url) => q.job_id = r.job_id
            /\ r.job_id \in DOMAIN enqCount => enqCount[r.job_id] <= 1

\* a second headerless call for ("p1", "u1") has found the job of the first
C1_Witness ==
    \E a \in Apis :
        /\ resp[a].job_id = DerivedKey("p1", "u1")
        /\ resp[a].header_key = ""
        /\ resp[a].saw # ""
        /\ ~resp[a].enqueued
        /\ enqCount[resp[a].job_id] = 1

\* C2 (Spec): for every idempotency key at most one job has been created and at
\* most one execution of run_ingest for it is active.
ActiveOn(k) == {w \in Workers : wk[w].pc # "idle" /\ wk[w].key = k}

C2_OneJobPerKey ==
    \A k \in DOMAIN jobs :
        /\ enqCount[k] <= 1
        /\ Cardinality(ActiveOn(k)) <= 1

\* the second half alone: no two executions of one job are inside run_ingest at
\* the same time
C2_TwoActive == \A k \in DOMAIN jobs : Cardinality(ActiveOn(k)) <= 1

\* C3 (Spec): a job whose stage is done has had each finalization side effect
\* (project update, start_job, pipeline stage completion) performed exactly once.
C3_FinalizeExactlyOnce ==
    \A k \in DOMAIN jobs :
        jobs[k].meta.stage = "done" => fx[k] = [proj |-> 1, start |-> 1, pipe |-> 1]

\* C4 (Spec): the stored stage of a job changes only one step forward along
\* queued, downloading, uploading, finalizing, done, or to failed from a stage
\* that is not terminal; done and failed never change.
StageOrder == <<"queued", "downloading", "uploading", "finalizing", "done">>

StageStep(s, t) ==
    \/ s = t
    \/ \E i \in 1..(Len(StageOrder) - 1) : s = StageOrder[i] /\ t = StageOrder[i + 1]
    \/ t = "failed" /\ s \in {"queued", "downloading", "uploading", "finalizing"}

C4_StageOrder ==
    [][\A k \in DOMAIN jobs : StageStep(jobs[k].meta.stage, jobs'[k].meta.stage)]_vars

\* no job record ever holds the stage failed
C4_StageNeverFailed == \A k \in DOMAIN jobs : jobs[k].meta.stage # "failed"

(***************************************************************************)
(* Properties of failed executions.  wk[w] keeps the record of the last    *)
(* execution of worker w until w takes the next job.                       *)
(***************************************************************************)
\* C5 (Spec): an execution in which the download or the upload raised has not
\* invoked finalize_ingest and has performed no project update, no start_job
\* and no pipeline stage update.
C5_TransferFailureNoFinalize ==
    \A w \in Workers :
        (wk[w].raised \cap {"download", "upload"}) # {} =>
            /\ ~wk[w].finalize_called
            /\ wk[w].fx = NoFx

\* an execution has ended with the upload raising, another with the download raising
C5_Witness ==
    /\ \E w \in Workers : wk[w].result = "failed" /\ "upload" \in wk[w].raised
    /\ \E w \in Workers : wk[w].result = "failed" /\ "download" \in wk[w].raised

\* C6 (Spec): an execution that ended in failure has issued no update of the
\* project record and no update of the pipeline stage record.
C6_FailedNoUpdates ==
    \A w \in Workers :
        wk[w].result = "failed" => wk[w].fx.proj = 0 /\ wk[w].fx.pipe = 0

\* C7 (Spec): after an execution has raised, the stored stage of its job is
\* failed and the job meta holds the error.
C7_FailureRecorded ==
    \A w \in Workers :
        wk[w].result = "failed" =>
            /\ jobs[wk[w].key].meta.stage = "failed"
            /\ "error" \in DOMAIN jobs[wk[w].key].meta

\* C8 (SpecSeq): a register_source call that finds a job in flight (queued or
\* started) returns it without enqueueing, and one that finds a terminal job
\* (finished or failed) enqueues a fresh job.
C8_Resubmission ==
    \A a \in Apis :
        /\ resp[a].saw \in {"queued", "started"} => ~resp[a].enqueued
        /\ resp[a].saw \in {"finished", "failed"} => resp[a].enqueued

\* C9 (SpecProgress): the progress values of the events published for the job are
\* non-decreasing in the order published, and each lies in 0..100.
C9_PublishedMonotone ==
    \A i \in 1..Len(published) :
        /\ published[i].progress \in 0..100
        /\ \A j \in i..Len(published) : published[i].progress <= published[j].progress

\* every published progress value lies in 0..100
C9_PublishedInRange == \A i \in 1..Len(published) : published[i].progress \in 0..100

\* C10 (Spec): once a job record holds a progress value, every later value is
\* an integer in 0..100 and not smaller.
C10_StoredProgressMonotone ==
    [][\A k \in DOMAIN jobs :
          "progress" \in DOMAIN jobs[k].meta =>
              /\ "progress" \in DOMAIN jobs'[k].meta
              /\ jobs'[k].meta.progress \in 0..100
              /\ jobs'[k].meta.progress >= jobs[k].meta.progress]_vars

\* C11 (finalize idempotence): whenever finalize_ingest has returned to a caller,
\* after its first call or after a repeated call with the same (project_id,
\* object_key), the project is upload_done, the "upload" pipeline stage is completed
\* at 100, and the project's video_source is the caller's object key unless another
\* caller updated the project later; no call on an existing project raises.
C11_FinalizeIdempotent ==
    \A w \in Workers :
        LET p == wk[w].payload.project_id IN
        p \in DOMAIN projects =>
            /\ wk[w].result # "failed"
            /\ wk[w].raised = {}
            /\ wk[w].pc = "mark_done" =>
                   /\ projects[p].status = "upload_done"
                   /\ pipeline[p] = [status |-> "completed", progress |-> 100]
                   /\ projects[p].updated_at = wk[w].wrote_at =>
                          projects[p].video_source = wk[w].object_key

\* C11 witness: a second call with the same arguments has returned, and the
\* project carries the caller's object key
C11_Witness ==
    \E w \in Workers :
        /\ wk[w].pc = "mark_done"
        /\ wk[w].fx.proj = 2
        /\ wk[w].payload.project_id \in DOMAIN projects
        /\ projects[wk[w].payload.project_id].video_source = wk[w].object_key
        /\ projects[wk[w].payload.project_id].updated_at = wk[w].wrote_at

\* C12 (project missing at finalize): an execution whose update_project found no
\* project has ended with the 404 error, without calling start_job or completing
\* the pipeline stage, and has not gone back into finalize; a job of a project that
\* does not exist never has stage done and has no finalize effect.
C12_ProjectMissing ==
    /\ \A w \in Workers :
           "update_project" \in wk[w].raised =>
               /\ wk[w].pc = "idle"
               /\ wk[w].result = "failed"
               /\ wk[w].exc = "HTTPException404"
               /\ wk[w].fx = NoFx
               /\ jobs[wk[w].key].meta.stage # "done"
    /\ \A k \in DOMAIN jobs :
           jobs[k].payload.project_id \notin DOMAIN projects =>
               /\ jobs[k].meta.stage # "done"
               /\ fx[k] = NoFx

\* C12 witness: finalize_ingest ran for a project that does not exist and raised
C12_Witness ==
    \E w \in Workers :
        /\ "update_project" \in wk[w].raised
        /\ wk[w].finalize_called
        /\ wk[w].payload.project_id \notin DOMAIN projects
        /\ jobs[wk[w].key].status = "failed"

(***************************************************************************)
(* Properties of register_source under broker failure.                     *)
(***************************************************************************)
\* C14 (queue unavailable): a register_source call in which a broker operation
\* raised ends with status 503 and leaves the job records and the queue as they were.
C14_BrokerDown503 ==
    [][\A a \in Apis :
          (resp'[a] # resp[a] /\ resp'[a].failed_op # "") =>
              /\ resp'[a].http = 503
              /\ jobs' = jobs
              /\ queue' = queue]_vars

\* C14: the answers given for a lookup or enqueue that raised are 503
C14_CaughtOps503 ==
    \A a \in Apis : resp[a].failed_op \in {"fetch_job", "enqueue"} => resp[a].http = 503

StoredBy(k) ==
    {w \in Workers : /\ wk[w].key = k
                     /\ wk[w].result = "ok"
                     /\ wk[w].meta = jobs[k].meta
                     /\ projects[wk[w].payload.project_id].updated_at = wk[w].wrote_at}

C16_SettledJobsAreDone ==
    \A k \in DOMAIN jobs :
        (\A i \in 1..Len(queue) : queue[i] # k) /\ ActiveOn(k) = {} =>
            /\ jobs[k].meta.stage = "done"
            /\ jobs[k].meta.progress = 100

\* C17 (stage/progress agreement on the job record): a job whose recorded stage is
\* downloading has recorded progress >= 5, one whose stage is uploading has progress
\* in 71..92, and one whose stage is done has progress 100.
C17_StageProgressAgreement ==
    \A k \in DOMAIN jobs :
        LET m == jobs[k].meta IN
        /\ m.stage = "downloading" =>
               "progress" \in DOMAIN m /\ m.progress >= DOWNLOAD_PROGRESS_START
        /\ m.stage = "uploading" =>
               "progress" \in DOMAIN m /\ m.progress \in UPLOAD_PROGRESS_START..UPLOAD_PROGRESS_DONE
        /\ m.stage = "done" =>
               "progress" \in DOMAIN m /\ m.progress = FINALIZE_PROGRESS_DONE

(***************************************************************************)
(* Properties of the traced execution under publish failures.              *)
(***************************************************************************)
\* the position of an execution that has handed these events to publish, none of
\* which failed
PcAfter(events) ==
    IF events = <<>> THEN "start"
    ELSE LET e == events[Len(events)] IN
         CASE e.stage = "downloading" -> "download"
           [] e.stage = "uploading" /\ e.progress = UPLOAD_PROGRESS_START -> "upload"
           [] e.stage = "uploading" /\ e.progress # UPLOAD_PROGRESS_START -> "finalize"
           [] e.stage = "finalizing" -> "finalizing"
           [] OTHER -> "done"

\* C13 (publish failures): whatever publishes raised RedisError, the execution has
\* not failed, and it stands where an execution with every publish returning stands
\* after the same events; an execution that is done has handed the done event at
\* 100 to publish.
C13_PublishFailureHarmless ==
    /\ run.pc # "failed"
    /\ run.pc = PcAfter(published)
    /\ run.lost <= Len(published)
    /\ run.pc = "done" =>
           /\ published[Len(published)].stage = "done"
           /\ published[Len(published)].progress = 100

\* C13 witness: every publish of the execution raised, and the execution is done
C13_Witness ==
    /\ run.pc = "done"
    /\ run.lost = Len(published)
    /\ run.lost >= 5

(***************************************************************************)
(* Properties of the progress partition.                                   *)
(***************************************************************************)
\* the progress values published with a stage, in publishing order
ProgressOf(stage) ==
    LET es == SelectSeq(published, LAMBDA e : e.stage = stage)
    IN [i \in 1..Len(es) |-> es[i].progress]

IsPrefix(s, t) == Len(s) <= Len(t) /\ s = SubSeq(t, 1, Len(s))

\* C18 (partition correctness): download_progress_for_completed_parts maps 0, 1, 2
\* completed parts to 5, 37, 70 and any larger count to 70, and that is the value the
\* hook holds after a finished event; the uploading events carry 71 then 92, the
\* finalizing event 93 and the done event 100.
C18_Partition ==
    /\ download_progress_for_completed_parts(0) = 5
    /\ download_progress_for_completed_parts(1) = 37
    /\ download_progress_for_completed_parts(2) = 70
    /\ \A n \in 3..(DOWNLOAD_PROGRESS_PARTS + MaxHookCalls) :
           download_progress_for_completed_parts(n) = 70
    /\ run.last_status = "finished" =>
           /\ run.completed_parts \in 1..DOWNLOAD_PROGRESS_PARTS
           /\ run.last_download_progress = IF run.completed_parts = 1 THEN 37 ELSE 70
    /\ IsPrefix(ProgressOf("uploading"), <<71, 92>>)
    /\ IsPrefix(ProgressOf("finalizing"), <<93>>)
    /\ IsPrefix(ProgressOf("done"), <<100>>)

\* C18 witness: an execution is done after the hook reported a first and a second
\* finished part, at 37 and 70, and every stage event has been published
C18_Witness ==
    /\ run.pc = "done"
    /\ run.last_status = "finished"
    /\ run.completed_parts = 2
    /\ \E i, j \in 1..Len(published) :
           /\ i < j
           /\ published[i].stage = "downloading" /\ published[i].progress = 37
           /\ published[j].stage = "downloading" /\ published[j].progress = 70
    /\ ProgressOf("uploading") = <<71, 92>>
    /\ ProgressOf("finalizing") = <<93>>
    /\ ProgressOf("done") = <<100>>

(***************************************************************************)
(* Properties of the published event stream.                               *)
(***************************************************************************)
\* C19 (duplicate suppression): over the events one execution publishes, from the
\* download start event to done, no two consecutive events carry the same progress.
C19_NoConsecutiveDuplicates ==
    \A i \in 1..(Len(published) - 1) : published[i].progress # published[i + 1].progress

\* C20 (downloading range): every progress value published with stage downloading
\* lies in 5..70.
C20_DownloadingRange ==
    \A i \in 1..Len(published) :
        published[i].stage = "downloading" =>
            published[i].progress \in DOWNLOAD_PROGRESS_START..DOWNLOAD_PROGRESS_MAX

\* C21 (in-part download progress): a downloading event with byte ratio r in [0,1],
\* as the integer percentage 100 r, received while P of 2 parts are complete (P in
\* {0,1}) makes the hook compute floor(5 + P * 65/2 + r * 65/2) for publication.
C21_InPartProgress ==
    (/\ run.last_status = "downloading"
     /\ run.last_pct \in 0..100
     /\ run.completed_parts \in {0, 1})
    => run.last_mapped = (5 * 200 + run.completed_parts * 65 * 100 + run.last_pct * 65) \div 200

(***************************************************************************)
(* Properties of the scratch directory and of killed executions.           *)
(***************************************************************************)
\* the execution whose record worker w holds has ended
Ended(w) == wk[w].pc = "idle" /\ wk[w].result # "none"

\* C22 (scratch cleanup): an execution that has ended, by success or by a failure of
\* the download, the upload or finalize, has no scratch directory left; and no
\* execution has a scratch directory in a state where its job is done or failed.
C22_ScratchRemoved ==
    \A w \in Workers :
        /\ Ended(w) => ~wk[w].scratch
        /\ wk[w].scratch =>
               /\ jobs[wk[w].key].meta.stage # "done"
               /\ jobs[wk[w].key].status \notin {"finished", "failed"}

\* C22, the exit paths that are exceptions or returns: an execution that ended with
\* result ok or failed has no scratch directory left
C22_RaisedOrReturnedClean ==
    \A w \in Workers : wk[w].result \in {"ok", "failed"} => ~wk[w].scratch

\* C23 (cancellation safety): an execution killed while downloading or uploading
\* has performed no finalization side effect, and an execution that has performed
\* or entered any finalization step had its upload return before.
C23_KillBeforeFinalize ==
    \A w \in Workers :
        /\ wk[w].killed_at \in {"download", "upload"} =>
               wk[w].fx = NoFx /\ ~wk[w].finalize_called
        /\ (wk[w].fx # NoFx \/ wk[w].finalize_called) =>
               wk[w].download_returned /\ wk[w].upload_returned

\* C23 witness: an execution was killed while uploading, after its download had
\* returned, and the project and the pipeline stage are as they were
C23_Witness ==
    \E w \in Workers :
        /\ wk[w].result = "killed"
        /\ wk[w].killed_at = "upload"
        /\ wk[w].download_returned
        /\ wk[w].fx = NoFx
        /\ wk[w].payload.project_id \in DOMAIN projects
        /\ projects[wk[w].payload.project_id].status = "upload_ready"
        /\ pipeline[wk[w].payload.project_id].status = "pending"

(***************************************************************************)
(* Properties of request validation.                                       *)
(***************************************************************************)
\* C24 (invalid payload): no register_source request with an empty project id or
\* source URL is answered with a job, and no job with such a payload is ever
\* written to the queue.
C24_InvalidPayloadRejected ==
    /\ \A r \in returned : r.project_id # "" /\ r.youtube_url # ""
    /\ \A k \in DOMAIN jobs :
           jobs[k].payload.project_id # "" /\ jobs[k].payload.source_url # ""

(***************************************************************************)
(* Properties of finalize_ingest among other writers.                      *)
(***************************************************************************)
\* C25 (state handed to start_job): the project state an execution has passed to
\* start_job has status upload_done and video_source equal to the object key of
\* that execution.
C25_StartJobGetsOwnUpdate ==
    \A w \in Workers :
        wk[w].tries.start_job > 0 =>
            /\ wk[w].project.status = "upload_done"
            /\ wk[w].project.video_source = wk[w].object_key

(***************************************************************************)
(* Properties of the order of the steps of one execution.                  *)
(***************************************************************************)
\* C26 (sequential, no retry): within one execution the download, the upload and
\* each of the three finalize steps is entered at most once; the upload is entered
\* only after the download returned, finalize_ingest only after the upload
\* returned, and its steps in the order update_project, start_job, pipeline stage.
C26_SequentialNoRetry ==
    \A w \in Workers :
        LET t == wk[w].tries IN
        /\ \A f \in DOMAIN t : t[f] <= 1
        /\ t.upload > 0 => wk[w].download_returned /\ t.download = 1
        /\ t.update_project > 0 => wk[w].upload_returned /\ t.upload = 1
        /\ wk[w].finalize_called => wk[w].upload_returned
        /\ t.start_job > 0 => t.update_project = 1
        /\ t.pipeline > 0 => t.start_job = 1

\* C26 witness: one execution has run every step once and ended ok, and another
\* has ended with its only upload attempt failing
C26_Witness ==
    /\ \E w \in Workers :
           /\ wk[w].result = "ok"
           /\ wk[w].tries = [download |-> 1, upload |-> 1, update_project |-> 1,
                              start_job |-> 1, pipeline |-> 1]
    /\ \E w \in Workers :
           /\ wk[w].result = "failed"
           /\ "upload" \in wk[w].raised
           /\ wk[w].tries = [NoTries EXCEPT !.download = 1, !.upload = 1]

(***************************************************************************)
(* Properties of the order of the published events.                        *)
(***************************************************************************)
\* the number of events at the head of the stream that carry stage downloading
RECURSIVE LeadingDownloading(_)
LeadingDownloading(events) ==
    IF events # <<>> /\ Head(events).stage = "downloading"
    THEN 1 + LeadingDownloading(Tail(events))
    ELSE 0

\* the events after the download, as <<stage, progress>>
AfterDownload ==
    LET n == LeadingDownloading(published)
    IN [i \in 1..(Len(published) - n) |->
           <<published[n + i].stage, published[n + i].progress>>]

\* C27 (event order and channel): every event of the execution is on the channel
\* uploads:{project_id} of the job's project; the events are one or more
\* downloading events followed by uploading at 71, uploading at 92, finalizing at 93
\* and done at 100, or a prefix of that; and once the done event has been handed
\* over, the three finalize steps have returned and the stored stage is done.
C27_EventOrder ==
    /\ \A i \in 1..Len(published) : published[i].channel = "uploads:" \o run.project_id
    /\ published # <<>> => LeadingDownloading(published) >= 1
    /\ IsPrefix(AfterDownload, << <<"uploading", 71>>, <<"uploading", 92>>,
                                  <<"finalizing", 93>>, <<"done", 100>> >>)
    /\ (published # <<>> /\ published[Len(published)].stage = "done") =>
           /\ run.fin_steps = 3
           /\ run.stage = "done"

\* C27 witness: the whole stream of an execution, with several downloading events
C27_Witness ==
    /\ LeadingDownloading(published) >= 3
    /\ Len(AfterDownload) = 4
    /\ run.stage = "done"
    /\ run.fin_steps = 3

(***************************************************************************)
(* Properties of the idempotency token.                                    *)
(***************************************************************************)
\* the value of Idempotency-Key if it is not empty, else that of X-Idempotency-Key
\* if it is not empty, else that of Dupilot-Idempotency-Key
FirstToken(hdrs) ==
    IF hdrs[1] # "" THEN hdrs[1] ELSE IF hdrs[2] # "" THEN hdrs[2] ELSE hdrs[3]

\* C28 (token reuse): every request that carries a token is answered with the job
\* whose id is the first non-empty candidate header, verbatim; and a call whose
\* token is the id of an existing job returns that job's id, status and stage
\* without enqueueing and leaves every job record and the queue as they were.
C28_TokenReuse ==
    /\ [](\A r \in returned : FirstToken(r.hdrs) # "" => r.job_id = FirstToken(r.hdrs))
    /\ [][\A a \in Apis :
             (/\ resp'[a] # resp[a]
              /\ resp'[a].failed_op = ""
              /\ resp'[a].header_key # ""
              /\ resp'[a].header_key \in DOMAIN jobs) =>
                 /\ jobs' = jobs
                 /\ queue' = queue
                 /\ enqCount' = enqCount
                 /\ ~resp'[a].enqueued
                 /\ resp'[a].job_id = resp'[a].header_key
                 /\ resp'[a].status = jobs[resp'[a].header_key].status
                 /\ resp'[a].stage = jobs[resp'[a].header_key].meta.stage]_vars

\* C28 witness: the token "tok" was sent with two different payloads, once with a
\* second token in a later candidate header; both calls were answered with job
\* "tok", which was enqueued once and keeps the payload of the first call
C28_Witness ==
    /\ "tok" \in DOMAIN jobs
    /\ enqCount["tok"] = 1
    /\ \E r, q \in returned :
           /\ r.job_id = "tok" /\ q.job_id = "tok"
           /\ r.project_id # q.project_id
           /\ q.hdrs = <<"", "tok", "tok2">>
           /\ jobs["tok"].payload.project_id = r.project_id
    /\ \E a \in Apis : resp[a].header_key = "tok" /\ ~resp[a].enqueued /\ resp[a].saw # ""

=============================================================================
